---- MODULE Spec2Model ----
(***************************************************************************)
(* A model of browzer_web: the path formatter and status table of          *)
(* utils.rs, the Context helpers of context.rs and the accept loop and     *)
(* per-connection job of lib.rs.                                           *)
(*                                                                         *)
(* A path is a sequence of characters; a character is a one-element       *)
(* string, except "e_acute", which stands for U+00E9 (two bytes in UTF-8). *)
(***************************************************************************)
EXTENDS Integers, Sequences, FiniteSets, TLC

VARIABLES
    \* ---- path formatter (utils.rs) ----
    path,          \* the String handed to format_path_by_slashes
    fmt_pc,        \* "start" | "once" | "twice" | "failed"
    res1,          \* format_path_by_slashes(path)
    res2,          \* format_path_by_slashes(res1), when res1 is Ok
    \* ---- Context (context.rs) and the status table (utils.rs) ----
    ctx,           \* the Context: request, response, params, query_params
    ret,           \* the Response the last send_string / redirect returned
    status_line,   \* the last value of response.status_code.code()
    \* ---- WebServer (lib.rs) ----
    routes,        \* the WebRouter's route table: method -> paths, in order
    strong_count,  \* the strong count of the Arc<WebRouter>
    listen_pc,     \* "accept" | "dispatch_ok" | "dispatch_err" | "returned"
    cur_conn,      \* the connection the accept loop holds (0: none)
    next_conn,     \* the number of connections accepted so far
    conn,          \* per connection: its stream, its job's progress and history
    queue,         \* the worker pool's job queue (a job is named by its connection)
    worker,        \* per worker: what it runs
    log            \* the kinds of error written to stderr so far

fmt_vars == <<path, fmt_pc, res1, res2>>
ctx_vars == <<ctx, ret, status_line>>
srv_vars == <<routes, strong_count, listen_pc, cur_conn, next_conn, conn, queue,
              worker, log>>
vars == <<path, fmt_pc, res1, res2, ctx, ret, status_line, routes, strong_count,
          listen_pc, cur_conn, next_conn, conn, queue, worker, log>>

\* ---------------------------------------------------------------- bounds
MaxPathLen == 3
MaxConn == 2
NWorkers == 2
MaxRoutes == 1
MaxItems == 3

\* ------------------------------------------------------------ characters
Chars == {"/", "?", "a", " ", "e_acute"}

\* char::len_utf8 of the characters of the alphabet
Utf8Len(c) == IF c = "e_acute" THEN 2 ELSE 1

\* char::is_whitespace, as str::trim uses it
IsWhitespace(c) == c = " "

RECURSIVE PathsOfLen(_)
PathsOfLen(n) ==
    IF n = 0 THEN {<<>>}
    ELSE {Append(p, c) : p \in PathsOfLen(n - 1), c \in Chars}

Paths == UNION {PathsOfLen(n) : n \in 0..MaxPathLen}

\* ------------------------------------------------------- Result<String,_>
Ok(v) == [ok |-> TRUE, val |-> v]
PathFormatError == [ok |-> FALSE, val |-> <<>>]
NoResult == [ok |-> FALSE, val |-> <<"-">>]

\* ------------------------------------------------------ String operations
\* String::len: the length in bytes
RECURSIVE StrLen(_)
StrLen(s) == IF s = <<>> THEN 0 ELSE Utf8Len(Head(s)) + StrLen(Tail(s))

RECURSIVE TrimStart(_)
TrimStart(s) ==
    IF s # <<>> /\ IsWhitespace(Head(s)) THEN TrimStart(Tail(s)) ELSE s

RECURSIVE TrimEnd(_)
TrimEnd(s) ==
    IF s # <<>> /\ IsWhitespace(s[Len(s)])
    THEN TrimEnd(SubSeq(s, 1, Len(s) - 1))
    ELSE s

\* str::trim
Trim(s) == TrimEnd(TrimStart(s))

\* path.chars().nth(n): the n-th character (from 0), None past the last one
NoChar == "None"
CharsNth(s, n) == IF n >= 0 /\ n < Len(s) THEN s[n + 1] ELSE NoChar

\* String::pop: drops the last character
Pop(s) == IF s = <<>> THEN s ELSE SubSeq(s, 1, Len(s) - 1)

\* str::replace("/?", "?"): non-overlapping matches, left to right
RECURSIVE ReplaceSlashQuestion(_)
ReplaceSlashQuestion(s) ==
    IF s = <<>> THEN <<>>
    ELSE IF Len(s) >= 2 /\ s[1] = "/" /\ s[2] = "?"
         THEN <<"?">> \o ReplaceSlashQuestion(SubSeq(s, 3, Len(s)))
         ELSE <<s[1]>> \o ReplaceSlashQuestion(Tail(s))

\* ------------------------------------------------ format_path_by_slashes
\* only the empty path is replaced, the path is not trimmed
EmptyToRoot_untrimmed(p) == IF p = <<>> THEN <<"/">> ELSE p

\* utils.rs:33-35
EmptyToRoot(p) ==
    IF StrLen(Trim(p)) = 0 /\ Trim(p) = <<>> THEN <<"/">> ELSE p

\* utils.rs:36: the index is the length in BYTES minus one (the path is not
\* empty here, so the subtraction does not wrap)
LastIndex(p) == StrLen(p) - 1

\* the last character is dropped whatever it is
StripSlash_unconditional(p, last_char) == Pop(p)

\* utils.rs:38-40
StripSlash(p, last_char) == IF last_char = "/" THEN Pop(p) ELSE p

\* utils.rs:32-50
format_path_by_slashes(p) ==
    LET p1 == EmptyToRoot(p)
        last_char == CharsNth(p1, LastIndex(p1))
    IN  IF last_char = NoChar
        THEN PathFormatError
        ELSE Ok(ReplaceSlashQuestion(StripSlash(p1, last_char)))

\* ------------------------------------------------------- HttpStatusCode
\* utils.rs:88-106
HttpStatusCode ==
    {"OK", "Created", "Accepted", "NoContent", "MovedPermanently", "Found",
     "SeeOther", "NotModified", "BadRequest", "Unauthorized", "Forbidden",
     "NotFound", "MethodNotAllowed", "InternalServerError", "NotImplemented",
     "BadGateway", "ServiceUnavailable"}

\* utils.rs:122-142: HttpStatusCode::code, the pair (reason phrase, code)
code(status) ==
    CASE status = "OK" -> <<"OK", 200>>
      [] status = "Created" -> <<"Created", 201>>
      [] status = "Accepted" -> <<"Accepted", 202>>
      [] status = "NoContent" -> <<"NoContent", 204>>
      [] status = "MovedPermanently" -> <<"Moved Permanently", 301>>
      [] status = "Found" -> <<"Found", 302>>
      [] status = "SeeOther" -> <<"See Other", 303>>
      [] status = "NotModified" -> <<"Not Modified", 304>>
      [] status = "BadRequest" -> <<"Bad Request", 400>>
      [] status = "Unauthorized" -> <<"Unauthorized", 401>>
      [] status = "Forbidden" -> <<"Forbidden", 403>>
      [] status = "NotFound" -> <<"Not Found", 404>>
      [] status = "MethodNotAllowed" -> <<"Method Not Allowed", 405>>
      [] status = "InternalServerError" -> <<"Internal Server Error", 500>>
      [] status = "NotImplemented" -> <<"Not Implemented", 501>>
      [] status = "BadGateway" -> <<"Bad Gateway", 502>>
      [] status = "ServiceUnavailable" -> <<"Service Unavailable", 503>>

\* ---------------------------------------------------- Response, Context
\* HashMap::insert: the key's old value, if any, is replaced
MapInsert(m, k, v) == [x \in (DOMAIN m) \cup {k} |-> IF x = k THEN v ELSE m[x]]

EmptyMap == [x \in {} |-> ""]

\* Response::default()
DefaultResponse == [status_code |-> "OK", headers |-> EmptyMap, body |-> ""]

\* the Request a Context wraps (Request::default())
DefaultRequest ==
    [method |-> "GET", path |-> <<"/">>, headers |-> EmptyMap, query |-> ""]

\* context.rs:59-66
ContextNew(request) ==
    [request |-> request, response |-> DefaultResponse,
     params |-> EmptyMap, query_params |-> EmptyMap]

\* the response is built afresh, the headers set before are lost
SendStringCtx_fresh(c, status, input) ==
    [c EXCEPT !.response =
        [DefaultResponse EXCEPT !.status_code = status, !.body = input]]

\* context.rs:93-95: the Context after send_string(status_code, input)
SendStringCtx(c, status, input) ==
    [c EXCEPT !.response.status_code = status, !.response.body = input]

\* context.rs:124-127: the Context after redirect(status_code, route)
RedirectCtx(c, status, route) ==
    [c EXCEPT !.response.headers = MapInsert(@, "Location", route),
              !.response.status_code = status]

Bodies == {"Hello, World!", "bye"}
RedirectRoutes == {"/home", "/login"}
NoStatusLine == [status |-> "-", reason |-> "-", code |-> 0]

\* ------------------------------------------------------ connection input
\* What BufReader::lines yields for a connection: Ok(line) or Err(io::Error)
Line(text) == [ok |-> TRUE, line |-> text]
ReadError == [ok |-> FALSE, line |-> ""]

Items ==
    {Line("GET / HTTP/1.1"), Line("GET /a/ HTTP/1.1"), Line("Host: x"),
     Line("BADLINE"), Line(""), ReadError}

RECURSIVE StreamsOfLen(_)
StreamsOfLen(n) ==
    IF n = 0 THEN {<<>>}
    ELSE {Append(s, i) : s \in StreamsOfLen(n - 1), i \in Items}

\* every input of at most MaxItems lines (the stream ends after them)
Streams == UNION {StreamsOfLen(n) : n \in 0..MaxItems}

\* the inputs the clients of the full server send
ServerStreams ==
    {<<Line("GET /a/ HTTP/1.1"), Line("Host: x"), Line(""), Line("Host: x")>>,
     <<Line("BADLINE"), Line("")>>}

\* lib.rs:394-397: Iterator::take_while with the closure of handle_request
RECURSIVE TakeWhile(_)
TakeWhile(items) ==
    IF items = <<>> THEN <<>>
    ELSE LET keep == IF Head(items).ok THEN Head(items).line # "" ELSE FALSE
         IN  IF keep THEN <<Head(items)>> \o TakeWhile(Tail(items)) ELSE <<>>

\* lib.rs:398-402: collect() into Result<Vec<String>, io::Error>: the first
\* Err among the items, else all the lines
Collect(items) ==
    IF \E i \in 1..Len(items) : ~items[i].ok
    THEN [ok |-> FALSE, val |-> <<>>]
    ELSE [ok |-> TRUE, val |-> [i \in 1..Len(items) |-> items[i].line]]

\* ------------------------------------------------------------ Request::new
\* the whitespace-separated tokens of a line
Tokens(line) ==
    CASE line = "GET / HTTP/1.1" -> <<"GET", "/", "HTTP/1.1">>
      [] line = "GET /a/ HTTP/1.1" -> <<"GET", "/a/", "HTTP/1.1">>
      [] line = "Host: x" -> <<"Host:", "x">>
      [] line = "BADLINE" -> <<"BADLINE">>
      [] OTHER -> <<>>

\* a header line split at its first ':' (<<>>: the line has no ':')
HeaderSplit(line) == IF line = "Host: x" THEN <<"Host", "x">> ELSE <<>>

\* the characters of a path token
PathChars(token) ==
    CASE token = "/" -> <<"/">>
      [] token = "/a/" -> <<"/", "a", "/">>
      [] OTHER -> <<>>

RECURSIVE ParseHeaders(_, _)
ParseHeaders(lines, acc) ==
    IF lines = <<>> THEN [ok |-> TRUE, val |-> acc]
    ELSE LET kv == HeaderSplit(Head(lines))
         IN  IF kv = <<>> THEN [ok |-> FALSE, val |-> EmptyMap]
             ELSE ParseHeaders(Tail(lines), MapInsert(acc, kv[1], kv[2]))

RequestParseError == [ok |-> FALSE, val |-> DefaultRequest]

\* Request::new(lines): the request line, then the header lines
RequestNew(lines) ==
    IF lines = <<>> THEN RequestParseError
    ELSE LET t == Tokens(lines[1])
             h == ParseHeaders(Tail(lines), EmptyMap)
         IN  IF Len(t) # 3 \/ ~h.ok THEN RequestParseError
             ELSE [ok |-> TRUE,
                   val |-> [method |-> t[1], path |-> PathChars(t[2]),
                            headers |-> h.val, query |-> ""]]

\* ------------------------------------------------------------- WebRouter
\* utils.rs:54-59
HttpMethod == {"GET", "POST", "PATCH", "DELETE"}

\* WebRouter::new()
NoRoutes == [m \in HttpMethod |-> <<>>]

RouteCount(rt) ==
    Len(rt["GET"]) + Len(rt["POST"]) + Len(rt["PATCH"]) + Len(rt["DELETE"])

\* the paths handed to get / post / patch / delete
RegPaths == {<<"/", "a", "/">>}

\* WebRouter::add: the route table and whether the path could be formatted
RouterAdd(rt, p, method) ==
    LET f == format_path_by_slashes(p)
    IN  IF f.ok
        THEN [ok |-> TRUE, routes |-> [rt EXCEPT ![method] = Append(@, f.val)]]
        ELSE [ok |-> FALSE, routes |-> rt]

\* a route's handler: |mut c| c.send_string(HttpStatusCode::OK, "Hello, World!")
Handler(c) == SendStringCtx(c, "OK", "Hello, World!").response

Matches(rt, method, p) == \E i \in 1..Len(rt[method]) : rt[method][i] = p

\* WebRouter::handle_request: the first matching route of the request's
\* method, else 405 when another method has the path, else 404
RouterHandleRequest(rt, request) ==
    LET f == format_path_by_slashes(request.path)
    IN  IF f.ok /\ Matches(rt, request.method, f.val)
        THEN Handler(ContextNew(request))
        ELSE IF f.ok /\ \E m \in HttpMethod : Matches(rt, m, f.val)
             THEN [DefaultResponse EXCEPT !.status_code = "MethodNotAllowed"]
             ELSE [DefaultResponse EXCEPT !.status_code = "NotFound"]

\* ------------------------------------------------------------ ThreadPool
Workers == 1..NWorkers
Conns == 1..MaxConn

\* ThreadPool::execute: the job is queued, or refused when the queue no
\* longer accepts work
execute(q, job, accepting) ==
    IF accepting THEN [ok |-> TRUE, queue |-> Append(q, job)]
    ELSE [ok |-> FALSE, queue |-> q]

IdleWorker == [pc |-> "idle", conn |-> 0]

\* ----------------------------------------------- WebServer::handle_request
\* what a job did (events, in order), the lines it parsed, the status of
\* the response that reached the connection, and its result
Outcome(events, lines, wire, result) ==
    [events |-> events, lines |-> lines, wire |-> wire, result |-> result]

\* lib.rs:419-424
FlushStream(events, lines, response, flush_ok) ==
    IF flush_ok
    THEN Outcome(events \o <<"flush_ok">>, lines, response.status_code, "Ok")
    ELSE Outcome(events \o <<"flush_err">>, lines, response.status_code,
                 "StreamFlushError")

\* lib.rs:412-417
WriteResponse(events, lines, rt, request, write_ok, flush_ok) ==
    LET response == RouterHandleRequest(rt, request)
    IN  IF write_ok
        THEN FlushStream(events \o <<"route", "write_ok">>, lines, response, flush_ok)
        ELSE Outcome(events \o <<"route", "write_err">>, lines, "", "IO")

\* a parse failure is answered like a parsed request
handle_request_answers_parse_error(rt, stream, write_ok, flush_ok) ==
    LET collected == Collect(TakeWhile(stream))
        request == RequestNew(collected.val)
    IN  IF ~collected.ok
        THEN Outcome(<<"read_err">>, <<>>, "", "IO")
        ELSE WriteResponse(<<"collect", IF request.ok THEN "parse_ok" ELSE "parse_err">>,
                           collected.val, rt, request.val, write_ok, flush_ok)

\* lib.rs:383-425
handle_request(rt, stream, write_ok, flush_ok) ==
    LET collected == Collect(TakeWhile(stream))
        request == RequestNew(collected.val)
    IN  IF ~collected.ok
        THEN Outcome(<<"read_err">>, <<>>, "", "IO")
        ELSE IF ~request.ok
             THEN Outcome(<<"collect", "parse_err">>, collected.val, "",
                          "RequestParseError")
             ELSE WriteResponse(<<"collect", "parse_ok">>, collected.val, rt,
                                request.val, write_ok, flush_ok)

NoConn ==
    [state |-> "none", stream |-> <<>>, events |-> <<>>, lines |-> <<>>,
     wire |-> "", result |-> "", execs |-> 0, submits |-> 0]

\* ---------------------------------------------------- Context: the actions
CtxInit ==
    /\ ctx = ContextNew(DefaultRequest)
    /\ ret = DefaultResponse
    /\ status_line = NoStatusLine

\* context.rs:88-97
send_string(status, input) ==
    /\ ctx' = SendStringCtx(ctx, status, input)
    /\ ret' = ctx'.response
    /\ UNCHANGED status_line

\* context.rs:119-129
redirect(status, route) ==
    /\ ctx' = RedirectCtx(ctx, status, route)
    /\ ret' = ctx'.response
    /\ UNCHANGED status_line

\* the returned Response's status line is built from status_code.code()
StatusCodeOf ==
    /\ status_line' = [status |-> ret.status_code,
                       reason |-> code(ret.status_code)[1],
                       code |-> code(ret.status_code)[2]]
    /\ UNCHANGED <<ctx, ret>>

\* context.rs:34: a handler inserts a header through the public field
\* response (c.response.headers.insert(name, value))
SetHeader(name, value) ==
    /\ ctx' = [ctx EXCEPT !.response.headers = MapInsert(@, name, value)]
    /\ UNCHANGED <<ret, status_line>>

HandlerHeaders == {<<"Content-Type", "text/plain">>}

InsertHeader == \E h \in HandlerHeaders : SetHeader(h[1], h[2])

SendString == \E status \in HttpStatusCode, input \in Bodies : send_string(status, input)
Redirect == \E status \in HttpStatusCode, route \in RedirectRoutes : redirect(status, route)

\* ------------------------------------------------- formatter: the actions
FmtStart ==
    /\ fmt_pc = "start"
    /\ res1 = NoResult
    /\ res2 = NoResult

\* a caller formats the path
Format ==
    /\ fmt_pc = "start"
    /\ res1' = format_path_by_slashes(path)
    /\ fmt_pc' = IF res1'.ok THEN "once" ELSE "failed"
    /\ UNCHANGED <<path, res2>>

\* a caller formats an already formatted path again
FormatAgain ==
    /\ fmt_pc = "once"
    /\ res2' = format_path_by_slashes(res1.val)
    /\ fmt_pc' = "twice"
    /\ UNCHANGED <<path, res1>>

\* ------------------------------------------------- WebServer: the actions
\* lib.rs:103-124: WebServer::new
SrvInit ==
    /\ routes = NoRoutes
    /\ strong_count = 1
    /\ listen_pc = "accept"
    /\ cur_conn = 0
    /\ next_conn = 0
    /\ conn = [c \in Conns |-> NoConn]
    /\ queue = <<>>
    /\ worker = [w \in Workers |-> IdleWorker]
    /\ log = {}

\* the route is added without looking at the strong count
Register_unchecked(method, p) ==
    /\ LET r == RouterAdd(routes, p, method)
       IN  /\ routes' = r.routes
           /\ log' = IF r.ok THEN log ELSE log \cup {"PathFormatError"}
    /\ UNCHANGED <<strong_count, listen_pc, cur_conn, next_conn, conn, queue, worker>>

\* lib.rs:162-174: the body shared by get, post, patch and delete
Register(method, p) ==
    /\ IF strong_count = 1
       THEN LET r == RouterAdd(routes, p, method)
            IN  /\ routes' = r.routes
                /\ log' = IF r.ok THEN log ELSE log \cup {"PathFormatError"}
       ELSE /\ routes' = routes
            /\ log' = log \cup {"WebRouter is not innitialized"}
    /\ UNCHANGED <<strong_count, listen_pc, cur_conn, next_conn, conn, queue, worker>>

\* registrations are counted up to MaxRoutes routes
CanRegister == strong_count = 1 => RouteCount(routes) < MaxRoutes

\* lib.rs:158-175
get == \E p \in RegPaths : CanRegister /\ Register("GET", p)
\* lib.rs:208-225
post == \E p \in RegPaths : CanRegister /\ Register("POST", p)
\* lib.rs:258-275
patch == \E p \in RegPaths : CanRegister /\ Register("PATCH", p)
\* lib.rs:308-325
delete == \E p \in RegPaths : CanRegister /\ Register("DELETE", p)

\* lib.rs:356-357: incoming() yields a connection, the router is cloned
AcceptOk(stream) ==
    /\ listen_pc = "accept"
    /\ next_conn < MaxConn
    /\ next_conn' = next_conn + 1
    /\ cur_conn' = next_conn'
    /\ conn' = [conn EXCEPT ![next_conn'] =
                  [NoConn EXCEPT !.state = "accepted", !.stream = stream]]
    /\ strong_count' = strong_count + 1
    /\ listen_pc' = "dispatch_ok"
    /\ UNCHANGED <<routes, queue, worker, log>>

\* lib.rs:356-357: incoming() yields an error, the router is cloned
AcceptErr ==
    /\ listen_pc = "accept"
    /\ strong_count' = strong_count + 1
    /\ listen_pc' = "dispatch_err"
    /\ UNCHANGED <<routes, cur_conn, next_conn, conn, queue, worker, log>>

\* a refused job is handed to the pool a second time
DispatchOk_resubmits(accepting) ==
    /\ listen_pc = "dispatch_ok"
    /\ LET r == execute(queue, cur_conn, accepting)
       IN  IF r.ok
           THEN /\ queue' = r.queue
                /\ conn' = [conn EXCEPT ![cur_conn].state = "queued",
                                        ![cur_conn].submits = @ + 1]
                /\ UNCHANGED <<strong_count, log>>
           ELSE /\ queue' = execute(queue, cur_conn, TRUE).queue
                /\ conn' = [conn EXCEPT ![cur_conn].state = "queued",
                                        ![cur_conn].submits = @ + 2]
                /\ log' = log \cup {"Failed to assign Worker thread"}
                /\ UNCHANGED strong_count
    /\ cur_conn' = 0
    /\ listen_pc' = "accept"
    /\ UNCHANGED <<routes, next_conn, worker>>

\* lib.rs:359-374: the job is handed to the pool; a refused job is dropped
\* with its stream and its router clone
DispatchOk(accepting) ==
    /\ listen_pc = "dispatch_ok"
    /\ LET r == execute(queue, cur_conn, accepting)
       IN  /\ queue' = r.queue
           /\ IF r.ok
              THEN /\ conn' = [conn EXCEPT ![cur_conn].state = "queued",
                                           ![cur_conn].submits = @ + 1]
                   /\ UNCHANGED <<strong_count, log>>
              ELSE /\ conn' = [conn EXCEPT ![cur_conn].state = "refused",
                                           ![cur_conn].submits = @ + 1]
                   /\ strong_count' = strong_count - 1
                   /\ log' = log \cup {"Failed to assign Worker thread"}
    /\ cur_conn' = 0
    /\ listen_pc' = "accept"
    /\ UNCHANGED <<routes, next_conn, worker>>

\* the failed accept ends the loop
DispatchErr_returns ==
    /\ listen_pc = "dispatch_err"
    /\ log' = log \cup {"Failed to establish a connection"}
    /\ strong_count' = strong_count - 1
    /\ listen_pc' = "returned"
    /\ UNCHANGED <<routes, cur_conn, next_conn, conn, queue, worker>>

\* lib.rs:375-378: the failed accept is logged, the router clone dropped
DispatchErr ==
    /\ listen_pc = "dispatch_err"
    /\ log' = log \cup {"Failed to establish a connection"}
    /\ strong_count' = strong_count - 1
    /\ listen_pc' = "accept"
    /\ UNCHANGED <<routes, cur_conn, next_conn, conn, queue, worker>>

\* the job is run but stays in the queue
Dequeue_keeps(w) ==
    /\ worker[w].pc = "idle"
    /\ queue # <<>>
    /\ LET c == Head(queue)
       IN  /\ worker' = [worker EXCEPT ![w] = [pc |-> "run", conn |-> c]]
           /\ conn' = [conn EXCEPT ![c].state = "running", ![c].execs = @ + 1]
    /\ queue' = queue
    /\ UNCHANGED <<routes, strong_count, listen_pc, cur_conn, next_conn, log>>

\* a worker takes the oldest job of the queue
Dequeue(w) ==
    /\ worker[w].pc = "idle"
    /\ queue # <<>>
    /\ LET c == Head(queue)
       IN  /\ worker' = [worker EXCEPT ![w] = [pc |-> "run", conn |-> c]]
           /\ conn' = [conn EXCEPT ![c].state = "running", ![c].execs = @ + 1]
    /\ queue' = Tail(queue)
    /\ UNCHANGED <<routes, strong_count, listen_pc, cur_conn, next_conn, log>>

\* lib.rs:361-366: the worker runs the job: handle_request on the job's
\* router and stream; an error is logged; the stream and the router clone
\* are dropped and the worker is free again
RunJob(w, write_ok, flush_ok) ==
    /\ worker[w].pc = "run"
    /\ \E c \in {worker[w].conn} :
       \E r \in {handle_request(routes, conn[c].stream, write_ok, flush_ok)} :
           /\ conn' = [conn EXCEPT ![c].state = "done",
                                   ![c].events = r.events,
                                   ![c].lines = r.lines,
                                   ![c].wire = r.wire,
                                   ![c].result = r.result]
           /\ log' = IF r.result = "Ok" THEN log ELSE log \cup {r.result}
    /\ worker' = [worker EXCEPT ![w] = IdleWorker]
    /\ strong_count' = strong_count - 1
    /\ UNCHANGED <<routes, listen_pc, cur_conn, next_conn, queue>>

\* ------------------------------------------------------ the specifications
FmtInit ==
    /\ path \in Paths
    /\ FmtStart
    /\ CtxInit
    /\ SrvInit

FmtNext ==
    \/ Format /\ UNCHANGED <<ctx_vars, srv_vars>>
    \/ FormatAgain /\ UNCHANGED <<ctx_vars, srv_vars>>

\* the path formatter on every path of at most MaxPathLen characters
SpecFormat == FmtInit /\ [][FmtNext]_vars

CtxSpecInit ==
    /\ path = <<"/">>
    /\ FmtStart
    /\ CtxInit
    /\ SrvInit

CtxNext ==
    \/ SendString /\ UNCHANGED <<fmt_vars, srv_vars>>
    \/ Redirect /\ UNCHANGED <<fmt_vars, srv_vars>>
    \/ StatusCodeOf /\ UNCHANGED <<fmt_vars, srv_vars>>
    \/ InsertHeader /\ UNCHANGED <<fmt_vars, srv_vars>>

\* a handler's calls on one Context
SpecContext == CtxSpecInit /\ [][CtxNext]_vars

SrvSpecInit ==
    /\ path = <<"/">>
    /\ FmtStart
    /\ CtxInit
    /\ SrvInit

\* a worker takes a job
TakeJob == \E w \in Workers : Dequeue(w)

\* a worker runs the job it took; the write and the flush succeed or fail
FinishJob ==
    \E w \in Workers, write_ok \in BOOLEAN, flush_ok \in BOOLEAN :
        RunJob(w, write_ok, flush_ok)

SrvNext ==
    \/ get /\ UNCHANGED <<fmt_vars, ctx_vars>>
    \/ post /\ UNCHANGED <<fmt_vars, ctx_vars>>
    \/ patch /\ UNCHANGED <<fmt_vars, ctx_vars>>
    \/ delete /\ UNCHANGED <<fmt_vars, ctx_vars>>
    \/ (\E stream \in ServerStreams : AcceptOk(stream)) /\ UNCHANGED <<fmt_vars, ctx_vars>>
    \/ AcceptErr /\ UNCHANGED <<fmt_vars, ctx_vars>>
    \/ (\E accepting \in BOOLEAN : DispatchOk(accepting)) /\ UNCHANGED <<fmt_vars, ctx_vars>>
    \/ DispatchErr /\ UNCHANGED <<fmt_vars, ctx_vars>>
    \/ TakeJob /\ UNCHANGED <<fmt_vars, ctx_vars>>
    \/ FinishJob /\ UNCHANGED <<fmt_vars, ctx_vars>>

\* the server: registrations, the accept loop and the worker pool
Spec == SrvSpecInit /\ [][SrvNext]_vars

\* one connection's job on every input of at most MaxItems lines: the
\* connection was accepted and its job queued
JobInit ==
    /\ path = <<"/">>
    /\ FmtStart
    /\ CtxInit
    /\ routes \in {NoRoutes} \cup
                  {RouterAdd(NoRoutes, p, m).routes : p \in RegPaths, m \in {"GET", "POST"}}
    /\ strong_count = 2
    /\ listen_pc = "accept"
    /\ cur_conn = 0
    /\ next_conn = 1
    /\ \E stream \in Streams :
          conn = [c \in Conns |->
                    IF c = 1
                    THEN [NoConn EXCEPT !.state = "queued", !.stream = stream,
                                        !.submits = 1]
                    ELSE NoConn]
    /\ queue = <<1>>
    /\ worker = [w \in Workers |-> IdleWorker]
    /\ log = {}

JobNext ==
    \/ TakeJob /\ UNCHANGED <<fmt_vars, ctx_vars>>
    \/ FinishJob /\ UNCHANGED <<fmt_vars, ctx_vars>>

SpecJob == JobInit /\ [][JobNext]_vars

\* ------------------------------------------------ claims: path formatter
Formatted == fmt_pc # "start"

\* C1: formatting the root path "/" returns Ok("/"): the trailing slash of
\* a path that is exactly "/" is not removed.
C1_RootStaysRoot == (Formatted /\ path = <<"/">>) => res1 = Ok(<<"/">>)

\* C2: formatting is idempotent: whenever formatting p succeeds, formatting
\* the result again gives the same result.
C2_Idempotent == fmt_pc = "twice" => res2 = res1

HasDoubleSlash(p) == \E i \in 1..(Len(p) - 1) : p[i] = "/" /\ p[i + 1] = "/"

WhitespaceThenSlash(p) ==
    /\ Len(p) >= 2
    /\ p[Len(p)] = "/"
    /\ \A i \in 1..(Len(p) - 1) : IsWhitespace(p[i])

\* C2 (amended): formatting is idempotent on every path on which it
\* succeeds that has no two consecutive slashes and is not whitespace
\* followed by a single slash.
C2_IdempotentOnSingleSlashes ==
    (fmt_pc = "twice" /\ ~HasDoubleSlash(path) /\ ~WhitespaceThenSlash(path))
        => res2 = res1

C2_Witness ==
    /\ fmt_pc = "twice"
    /\ path = <<"/", "a", "/">>
    /\ res1 = Ok(<<"/", "a">>)
    /\ res2 = res1

\* C3: format_path_by_slashes never returns an error, whatever the input
\* (paths with multi-byte characters included).
C3_NeverFails == Formatted => res1.ok

\* the rules applied in order: one trailing "/" removed, then every "/"
\* that stands directly before a "?" removed
ReferenceStrip(p) ==
    IF p # <<>> /\ p[Len(p)] = "/" THEN SubSeq(p, 1, Len(p) - 1) ELSE p

RECURSIVE KeepFrom(_, _)
KeepFrom(p, i) ==
    IF i > Len(p) THEN <<>>
    ELSE IF p[i] = "/" /\ i < Len(p) /\ p[i + 1] = "?"
         THEN KeepFrom(p, i + 1)
         ELSE <<p[i]>> \o KeepFrom(p, i + 1)

ReferenceFormat(p) == KeepFrom(ReferenceStrip(p), 1)

\* C4: for every path of at least two characters the result is Ok of the
\* reference: exactly one trailing "/" removed, then every "/?" replaced
\* by "?".
C4_MatchesReference ==
    (Formatted /\ Len(path) >= 2) => res1 = Ok(ReferenceFormat(path))

\* ---------------------------------------------------- claims: status table
\* the fixed status table of the wire format: status -> (reason, code)
FixedStatusTable ==
    [s \in HttpStatusCode |->
        CASE s = "OK" -> <<"OK", 200>>
          [] s = "Created" -> <<"Created", 201>>
          [] s = "Accepted" -> <<"Accepted", 202>>
          [] s = "NoContent" -> <<"No Content", 204>>
          [] s = "MovedPermanently" -> <<"Moved Permanently", 301>>
          [] s = "Found" -> <<"Found", 302>>
          [] s = "SeeOther" -> <<"See Other", 303>>
          [] s = "NotModified" -> <<"Not Modified", 304>>
          [] s = "BadRequest" -> <<"Bad Request", 400>>
          [] s = "Unauthorized" -> <<"Unauthorized", 401>>
          [] s = "Forbidden" -> <<"Forbidden", 403>>
          [] s = "NotFound" -> <<"Not Found", 404>>
          [] s = "MethodNotAllowed" -> <<"Method Not Allowed", 405>>
          [] s = "InternalServerError" -> <<"Internal Server Error", 500>>
          [] s = "NotImplemented" -> <<"Not Implemented", 501>>
          [] s = "BadGateway" -> <<"Bad Gateway", 502>>
          [] s = "ServiceUnavailable" -> <<"Service Unavailable", 503>>]

\* C5: code() gives every status the (reason phrase, code) pair of the
\* fixed status table, and no two statuses share a numeric code.
C5_StatusTable ==
    /\ status_line # NoStatusLine =>
          <<status_line.reason, status_line.code>> = FixedStatusTable[status_line.status]
    /\ \A s, t \in HttpStatusCode : code(s)[2] = code(t)[2] => s = t

\* ---------------------------------------------------- claims: the server
JobErrors == {"IO", "RequestParseError", "StreamFlushError"}

\* one step of the accept loop
ListenStep ==
    \/ \E stream \in ServerStreams : AcceptOk(stream)
    \/ AcceptErr
    \/ \E accepting \in BOOLEAN : DispatchOk(accepting)
    \/ DispatchErr

\* C6: listen never returns: whatever failed so far (an accept, a
\* submission, a job), the accept loop is still running and its next step
\* (the dispatch of what it holds, then the next accept) can be taken.
C6_ListenKeepsRunning ==
    /\ listen_pc \in {"accept", "dispatch_ok", "dispatch_err"}
    /\ (listen_pc # "accept" \/ next_conn < MaxConn) =>
          ENABLED (ListenStep /\ UNCHANGED <<fmt_vars, ctx_vars>>)
    /\ listen_pc = "accept" => ENABLED (AcceptErr /\ UNCHANGED <<fmt_vars, ctx_vars>>)

\* all three kinds of failure were logged and the loop accepted again
C6_Witness ==
    /\ "Failed to establish a connection" \in log
    /\ "Failed to assign Worker thread" \in log
    /\ log \cap JobErrors # {}
    /\ \E c \in Conns : conn[c].state = "done" /\ conn[c].result \in JobErrors
    /\ \E c \in Conns : conn[c].state = "refused"
    /\ listen_pc = "dispatch_err"

\* the read of the stream failed before an empty line was read
ReadFailsBeforeEmptyLine(stream) ==
    \E i \in 1..Len(stream) :
        /\ ~stream[i].ok
        /\ \A j \in 1..(i - 1) : stream[j].ok /\ stream[j].line # ""

\* C7: a job whose read fails before the first empty line ends with an IO
\* error: the router is not invoked and nothing is written.
C7_ReadErrorDropsConnection ==
    \A c \in Conns :
        (conn[c].state = "done" /\ ReadFailsBeforeEmptyLine(conn[c].stream)) =>
            /\ conn[c].result = "IO"
            /\ \A i \in 1..Len(conn[c].events) :
                  conn[c].events[i] \notin {"route", "write_ok", "write_err"}
            /\ conn[c].wire = ""

\* the jobs that hold a reference to the router
InFlight == {c \in Conns : conn[c].state \in {"queued", "running"}}

RegisterStep == get \/ post \/ patch \/ delete

\* C8: while a job holds a reference to the router no step changes the
\* route table, and a registration made then is reported as an error.
C8_NoMutationWhileShared ==
    [][InFlight # {} =>
          /\ routes' = routes
          /\ RegisterStep => "WebRouter is not innitialized" \in log']_vars

\* a route was registered, then a registration was refused under a job
C8_Witness ==
    /\ InFlight # {}
    /\ RouteCount(routes) = 1
    /\ "WebRouter is not innitialized" \in log

InQueue(c) == {i \in 1..Len(queue) : queue[i] = c}
RunBy(c) == {w \in Workers : worker[w].pc = "run" /\ worker[w].conn = c}
Submitted == {c \in Conns : conn[c].state \in {"queued", "running", "done"}}

\* C9: every submitted job is run exactly once, by one worker: it is in
\* the queue once and not yet run, or held by one worker, or done; when
\* the pool is at rest every submitted job has been run once.
C9_EachJobRunOnce ==
    /\ \A c \in Conns :
          /\ conn[c].execs <= 1
          /\ Cardinality(InQueue(c)) = IF conn[c].state = "queued" THEN 1 ELSE 0
          /\ Cardinality(RunBy(c)) = IF conn[c].state = "running" THEN 1 ELSE 0
          /\ conn[c].execs = IF conn[c].state \in {"running", "done"} THEN 1 ELSE 0
    /\ \A w \in Workers : worker[w].pc = "run" => conn[worker[w].conn].state = "running"
    /\ (queue = <<>> /\ \A w \in Workers : worker[w].pc = "idle") =>
          \A c \in Submitted : conn[c].state = "done" /\ conn[c].execs = 1

\* two jobs were submitted and both were run, with the pool at rest
C9_Witness ==
    /\ Cardinality(Submitted) >= 2
    /\ \A c \in Submitted : conn[c].state = "done" /\ conn[c].execs = 1
    /\ queue = <<>>

\* the positions of an event in a job's history
At(ev, e) == {i \in 1..Len(ev) : ev[i] = e}
Before(ev, a, b) == \A j \in At(ev, b) : \E i \in At(ev, a) : i < j

JobEvents ==
    {"read_err", "collect", "parse_ok", "parse_err", "route", "write_ok",
     "write_err", "flush_ok", "flush_err"}

\* C10: a job's steps happen in the order collect, parse, route, write,
\* flush, each at most once; the router runs only after a successful
\* parse, the write only after the router, the flush only after a
\* successful write; a failed parse means no routing and nothing written.
C10_JobStepsInOrder ==
    \A c \in Conns :
        LET ev == conn[c].events
        IN  /\ \A e \in JobEvents : Cardinality(At(ev, e)) <= 1
            /\ At(ev, "parse_ok") = {} \/ At(ev, "parse_err") = {}
            /\ At(ev, "write_ok") = {} \/ At(ev, "write_err") = {}
            /\ At(ev, "flush_ok") = {} \/ At(ev, "flush_err") = {}
            /\ Before(ev, "collect", "parse_ok") /\ Before(ev, "collect", "parse_err")
            /\ Before(ev, "parse_ok", "route")
            /\ Before(ev, "route", "write_ok") /\ Before(ev, "route", "write_err")
            /\ Before(ev, "write_ok", "flush_ok") /\ Before(ev, "write_ok", "flush_err")
            /\ At(ev, "parse_err") # {} =>
                  /\ At(ev, "route") = {}
                  /\ At(ev, "write_ok") = {} /\ At(ev, "write_err") = {}
                  /\ conn[c].wire = ""
            /\ conn[c].wire # "" => At(ev, "write_ok") # {}

\* a job went through all five steps
C10_Witness ==
    \E c \in Conns :
        /\ conn[c].state = "done"
        /\ conn[c].events = <<"collect", "parse_ok", "route", "write_ok", "flush_ok">>
        /\ conn[c].wire = "OK"

\* the lines a stream delivers before its first empty line, in order (a
\* failed read delivers no line)
RECURSIVE LinesBeforeEmpty(_)
LinesBeforeEmpty(stream) ==
    IF stream = <<>> THEN <<>>
    ELSE IF ~Head(stream).ok THEN LinesBeforeEmpty(Tail(stream))
    ELSE IF Head(stream).line = "" THEN <<>>
    ELSE <<Head(stream).line>> \o LinesBeforeEmpty(Tail(stream))

\* the job handed lines to Request::new
ParserInvoked(c) == At(conn[c].events, "collect") # {}

\* C11: the lines handed to the request parser are exactly the lines
\* received before the first empty line, in order: no empty line and no
\* line that follows the first empty line is among them.
C11_LinesUpToFirstEmpty ==
    \A c \in Conns :
        ParserInvoked(c) =>
            /\ conn[c].lines = LinesBeforeEmpty(conn[c].stream)
            /\ \A i \in 1..Len(conn[c].lines) : conn[c].lines[i] # ""

\* the connections the accept loop has dispatched
Dispatched == {c \in Conns : conn[c].state \notin {"none", "accepted"}}

\* C12: the accept loop hands exactly one job to the pool for every
\* accepted connection, none for a failed accept, and never a second one
\* for a refused job: every connection dispatched was submitted once; a
\* job names the one connection it was made for; a refused connection is
\* neither queued nor run; every job holds its own clone of the router.
C12_OneJobPerConnection ==
    /\ \A c \in Conns :
          /\ conn[c].submits = IF c \in Dispatched THEN 1 ELSE 0
          /\ conn[c].state = "refused" =>
                InQueue(c) = {} /\ RunBy(c) = {} /\ conn[c].execs = 0
          /\ conn[c].state = "accepted" <=>
                (listen_pc = "dispatch_ok" /\ cur_conn = c)
          /\ conn[c].state # "none" <=> c <= next_conn
    /\ \A i \in 1..Len(queue) : queue[i] \in 1..next_conn
    /\ listen_pc = "dispatch_err" => cur_conn = 0
    /\ Cardinality(Dispatched) =
          next_conn - (IF listen_pc = "dispatch_ok" THEN 1 ELSE 0)
    /\ strong_count =
          1 + (IF listen_pc = "accept" THEN 0 ELSE 1) + Cardinality(InFlight)

\* one connection was refused and abandoned, another one was queued, and
\* an accept failed
C12_Witness ==
    /\ \E c \in Conns : conn[c].state = "refused" /\ conn[c].submits = 1
    /\ \E c \in Conns : conn[c].state = "queued" /\ conn[c].submits = 1
    /\ "Failed to establish a connection" \in log
    /\ listen_pc = "accept"

AllWhitespace(p) == \A i \in 1..Len(p) : IsWhitespace(p[i])

\* C13: an empty or all-whitespace path is formatted like "/": the
\* result is the result of formatting "/".
C13_BlankIsRoot ==
    (Formatted /\ AllWhitespace(path)) => res1 = format_path_by_slashes(<<"/">>)

\* a path of two spaces was formatted
C13_Witness ==
    /\ Formatted
    /\ path = <<" ", " ">>
    /\ res1.ok

\* ------------------------------------------------------ claims: Context
\* the headers other than name are the same in h and g
SameHeadersBut(h, g, name) ==
    /\ (DOMAIN h) \ {name} = (DOMAIN g) \ {name}
    /\ \A k \in (DOMAIN h) \ {name} : h[k] = g[k]

SameRequestAndParams ==
    /\ ctx'.request = ctx.request
    /\ ctx'.params = ctx.params
    /\ ctx'.query_params = ctx.query_params

\* C14: send_string and redirect return the Context's response as it is
\* after the call; send_string sets the status code and the body and
\* leaves every header as it was; redirect sets the status code and the
\* "Location" header and leaves the body and every other header as they
\* were; neither changes request, params or query_params. (A call is a
\* step that is send_string or redirect with the status code it leaves.)
C14_ContextFrame ==
    [][/\ \A status \in HttpStatusCode, input \in Bodies :
             (ctx'.response.status_code = status /\ send_string(status, input)) =>
                 /\ ret' = ctx'.response
                 /\ ctx'.response.body = input
                 /\ ctx'.response.headers = ctx.response.headers
                 /\ SameRequestAndParams
       /\ \A status \in HttpStatusCode, route \in RedirectRoutes :
             (ctx'.response.status_code = status /\ redirect(status, route)) =>
                 /\ ret' = ctx'.response
                 /\ "Location" \in DOMAIN ctx'.response.headers
                 /\ ctx'.response.headers["Location"] = route
                 /\ SameHeadersBut(ctx'.response.headers, ctx.response.headers,
                                   "Location")
                 /\ ctx'.response.body = ctx.response.body
                 /\ SameRequestAndParams]_vars

\* a redirect, then a send_string: the Location and the handler's header
\* are still there, and the call returned the Context's response
C14_Witness ==
    /\ ret = ctx.response
    /\ DOMAIN ctx.response.headers = {"Location", "Content-Type"}
    /\ ctx.response.headers["Location"] = "/login"
    /\ ctx.response.body = "bye"
    /\ ctx.response.status_code = "Created"

====
